---------------------------- MODULE Spec2Model ----------------------------
(***************************************************************************)
(* Business-day calendar of finbr (finbr/dias_uteis): holiday rules, the   *)
(* per-year business-day sequence and the queries built on it; the DI1     *)
(* ticker check and maturity date of finbr/b3/di1 and the date chunks of   *)
(* finbr/sgs, which work on the same dates.                                *)
(*                                                                         *)
(* A date is its proleptic Gregorian ordinal (datetime.date.toordinal():   *)
(* 0001-01-01 is 1), so date comparison is integer comparison and          *)
(* date + timedelta(days=k) is integer addition followed by a range check. *)
(***************************************************************************)
EXTENDS Integers, Sequences, FiniteSets, TLC

VARIABLES op, args, ret, national_holidays

vars == <<op, args, ret, national_holidays>>

---------------------------------------------------------------------------
(* Bounds of the model *)

\* Half-width, in calendar days, of the window of input dates taken around
\* each anchor date.
DateRadius == 9

\* Largest |days_delta| passed to delta_du.
MaxDelta == 7

\* A days_delta of more than a year of business days, passed to delta_du
\* with either sign next to the small ones.
FarDelta == 1000

\* Years passed to year_dus.
YearLo == 1950

YearHi == 2100

\* Years every date of which is passed to is_du and is_holiday.
CalendarYearLo == 2023

CalendarYearHi == 2025

\* Half-width of the range of years, around the start_year of the registry,
\* that Holiday.calc_for_year is called with and that the validity windows
\* of the sample rules are taken from.
RuleYearRadius == 2

\* Number of years below MINYEAR and above MAXYEAR passed to the calls that
\* take a year.
InvalidYearMargin == 2

\* Largest number of days between inicio and fim passed to _make_chunks.
MaxChunkSpan == 8

\* Largest chunk_size passed to _make_chunks.
MaxChunkSize == 4

---------------------------------------------------------------------------
(* datetime.date *)

MINYEAR == 1

MAXYEAR == 9999

IsLeap(year) == year % 4 = 0 /\ (year % 100 # 0 \/ year % 400 = 0)

DaysBeforeYear(year) ==
    LET y == year - 1 IN y * 365 + (y \div 4) - (y \div 100) + (y \div 400)

DaysInMonth(year, month) ==
    IF month = 2 THEN (IF IsLeap(year) THEN 29 ELSE 28)
    ELSE IF month \in {4, 6, 9, 11} THEN 30 ELSE 31

RECURSIVE DaysBeforeMonth(_, _)
DaysBeforeMonth(year, month) ==
    IF month = 1 THEN 0
    ELSE DaysBeforeMonth(year, month - 1) + DaysInMonth(year, month - 1)

\* datetime.date(year, month, day).toordinal(), for a legal (year, month, day)
Date(year, month, day) == DaysBeforeYear(year) + DaysBeforeMonth(year, month) + day

\* datetime.date.max.toordinal()
MaxOrdinal == Date(MAXYEAR, 12, 31)

\* date.year
YearOf(date) ==
    CHOOSE y \in (date \div 366)..((date \div 365) + 1) :
        DaysBeforeYear(y) < date /\ date <= DaysBeforeYear(y + 1)

\* date.weekday(): Monday is 0, Sunday is 6
Weekday(date) == (date + 6) % 7

\* date + datetime.timedelta(days): OverflowError outside date.min..date.max
InDateRange(ordinal) == 1 <= ordinal /\ ordinal <= MaxOrdinal

---------------------------------------------------------------------------
(* Results of a call: a value, or the exception the call raised *)

Ok(v) == [err |-> "none", val |-> v]

Raise(e) == [err |-> e]

IsOk(r) == r.err = "none"

\* A step that may raise, then the rest of the computation on the value of
\* the step: an exception of the step ends the computation
Then(step, rest(_)) == IF IsOk(step) THEN rest(step.val) ELSE step

\* datetime.date(year, month, day): ValueError unless year is in
\* MINYEAR..MAXYEAR, month in 1..12 and day in 1..the length of the month
datetime_date(year, month, day) ==
    IF year < MINYEAR \/ year > MAXYEAR THEN Raise("ValueError")
    ELSE IF month < 1 \/ month > 12 THEN Raise("ValueError")
    ELSE IF day < 1 \/ day > DaysInMonth(year, month) THEN Raise("ValueError")
    ELSE Ok(Date(year, month, day))

\* date + datetime.timedelta(days=days)
date_add(date, days) ==
    IF InDateRange(date + days) THEN Ok(date + days) ELSE Raise("OverflowError")

---------------------------------------------------------------------------
(* Python lists *)

Contains(list, x) == \E i \in 1..Len(list) : list[i] = x

\* list.index(x): the 0-based position of the first x, ValueError without one
IndexOf(list, x) ==
    IF ~Contains(list, x) THEN Raise("ValueError")
    ELSE Ok((CHOOSE i \in 1..Len(list) :
                list[i] = x /\ \A j \in 1..(i - 1) : list[j] # x) - 1)

\* list[i] for a 0-based i: a negative i counts from the end of the list
Subscript(list, i) ==
    IF 0 <= i /\ i < Len(list) THEN Ok(list[i + 1])
    ELSE IF i < 0 /\ -Len(list) <= i THEN Ok(list[Len(list) + i + 1])
    ELSE Raise("IndexError")

\* range(start, stop)
RangeUp(start, stop) ==
    [i \in 1..(IF stop > start THEN stop - start ELSE 0) |-> start + i - 1]

\* range(start, stop, -1)
RangeDown(start, stop) ==
    [i \in 1..(IF start > stop THEN start - stop ELSE 0) |-> start - i + 1]

RECURSIVE Insert(_, _)
Insert(sorted, x) ==
    IF sorted = <<>> THEN <<x>>
    ELSE IF x < Head(sorted) THEN <<x>> \o sorted
    ELSE <<Head(sorted)>> \o Insert(Tail(sorted), x)

\* sorted(list)
RECURSIVE Sorted(_)
Sorted(list) ==
    IF list = <<>> THEN <<>>
    ELSE Insert(Sorted(Tail(list)), Head(list))

---------------------------------------------------------------------------
(* Python strings: a string is the sequence of its characters, a character *)
(* a one-character string. The two characters outside ASCII that the       *)
(* tickers are built from are written by their Unicode names.              *)

\* U+00B2: a digit for str.isdigit(), no decimal digit for int()
SuperscriptTwo == "SUPERSCRIPT TWO"

\* U+0663: a digit for str.isdigit(), the decimal digit 3 for int()
ArabicIndicThree == "ARABIC-INDIC DIGIT THREE"

\* The value of the characters that int() reads as decimal digits
DecimalValue ==
    [c \in {"0", "1", "2", "3", "4", "5", "6", "7", "8", "9", ArabicIndicThree} |->
        CASE c = "0" -> 0 [] c = "1" -> 1 [] c = "2" -> 2 [] c = "3" -> 3
          [] c = "4" -> 4 [] c = "5" -> 5 [] c = "6" -> 6 [] c = "7" -> 7
          [] c = "8" -> 8 [] c = "9" -> 9 [] c = ArabicIndicThree -> 3]

\* str.isdigit(): the string is not empty and every character is a digit,
\* decimal or not
isdigit(s) ==
    /\ s # <<>>
    /\ \A i \in 1..Len(s) : s[i] \in DOMAIN DecimalValue \cup {SuperscriptTwo}

\* int(s) for a string without sign, blanks or underscores: ValueError
\* unless every character is a decimal digit
RECURSIVE int(_)
int(s) ==
    IF s = <<>> \/ \E i \in 1..Len(s) : s[i] \notin DOMAIN DecimalValue
    THEN Raise("ValueError")
    ELSE IF Len(s) = 1 THEN Ok(DecimalValue[s[1]])
    ELSE Ok(int(SubSeq(s, 1, Len(s) - 1)).val * 10 + DecimalValue[s[Len(s)]])

\* The value None
None == "None"

---------------------------------------------------------------------------
(* holidays.py *)

\* month and day of Easter Sunday as _calc_pascoa computes them, before it
\* builds the date
_calc_pascoa_month_day(year) ==
    LET a == year % 19
        b == year \div 100
        c == year % 100
        d == b \div 4
        e == b % 4
        f == (b + 8) \div 25
        g == (b - f + 1) \div 3
        h == (19 * a + b - d - g + 15) % 30
        i == c \div 4
        k == c % 4
        l == (32 + 2 * e + 2 * i - h - k) % 7
        m == (a + 11 * h + 22 * l) \div 451
        month == (h + l - 7 * m + 114) \div 31
        day == ((h + l - 7 * m + 114) % 31) + 1
    IN  [month |-> month, day |-> day]

\* _calc_pascoa without the correction term m
_calc_pascoa_without_m(year) ==
    LET a == year % 19
        b == year \div 100
        c == year % 100
        d == b \div 4
        e == b % 4
        f == (b + 8) \div 25
        g == (b - f + 1) \div 3
        h == (19 * a + b - d - g + 15) % 30
        i == c \div 4
        k == c % 4
        l == (32 + 2 * e + 2 * i - h - k) % 7
        month == (h + l + 114) \div 31
        day == ((h + l + 114) % 31) + 1
    IN  datetime_date(year, month, day)

_calc_pascoa(year) ==
    LET md == _calc_pascoa_month_day(year)
    IN  datetime_date(year, md.month, md.day)

\* _delta_pascoa that starts from the Easter of the year before
_delta_pascoa_previous_year(year, delta) ==
    Then(_calc_pascoa(year - 1), LAMBDA pascoa : date_add(pascoa, delta))

_delta_pascoa(year, delta) ==
    Then(_calc_pascoa(year), LAMBDA pascoa : date_add(pascoa, delta))

\* Holiday(month, day, start_year, end_year): an unset bound is the empty set
Fixed(month, day, start_year, end_year) ==
    [type |-> "fixed", month |-> month, day |-> day, delta |-> 0,
     start_year |-> start_year, end_year |-> end_year]

\* Holiday(func=partial(_delta_pascoa, delta=delta))
Dynamic(delta) ==
    [type |-> "dynamic", month |-> 0, day |-> 0, delta |-> delta,
     start_year |-> {}, end_year |-> {}]

NATIONAL_HOLIDAYS ==
    << Fixed(1, 1, {}, {}),
       Dynamic(-48),
       Dynamic(-47),
       Dynamic(-2),
       Fixed(4, 21, {}, {}),
       Fixed(5, 1, {}, {}),
       Dynamic(60),
       Fixed(9, 7, {}, {}),
       Fixed(10, 12, {}, {}),
       Fixed(11, 2, {}, {}),
       Fixed(11, 15, {}, {}),
       Fixed(11, 20, {2024}, {}),
       Fixed(12, 25, {}, {}) >>


---------------------------------------------------------------------------
(* base.py *)

\* calc_for_year with the test "year <= self.start_year"
calc_for_year_exclusive_start(holiday, year) ==
    Then(datetime_date(year, 1, 1), LAMBDA validated :
        IF holiday.type = "fixed"
        THEN IF \E s \in holiday.start_year : year <= s THEN Ok(<<>>)
             ELSE IF \E e \in holiday.end_year : year > e THEN Ok(<<>>)
             ELSE Then(datetime_date(year, holiday.month, holiday.day),
                       LAMBDA fixed : Ok(<<fixed>>))
        ELSE Then(_delta_pascoa(year, holiday.delta),
                  LAMBDA func_response : Ok(<<func_response>>)))

\* calc_for_year that builds a date, and so validates the year, only where
\* it returns one
calc_for_year_validates_late(holiday, year) ==
    IF holiday.type = "fixed"
    THEN IF \E s \in holiday.start_year : year < s THEN Ok(<<>>)
         ELSE IF \E e \in holiday.end_year : year > e THEN Ok(<<>>)
         ELSE Then(datetime_date(year, holiday.month, holiday.day),
                   LAMBDA fixed : Ok(<<fixed>>))
    ELSE Then(_delta_pascoa(year, holiday.delta),
              LAMBDA func_response : Ok(<<func_response>>))

\* calc_for_year that resolves a fixed rule in every year
calc_for_year_ignores_window(holiday, year) ==
    Then(datetime_date(year, 1, 1), LAMBDA validated :
        IF holiday.type = "fixed"
        THEN Then(datetime_date(year, holiday.month, holiday.day),
                  LAMBDA fixed : Ok(<<fixed>>))
        ELSE Then(_delta_pascoa(year, holiday.delta),
                  LAMBDA func_response : Ok(<<func_response>>)))

\* Holiday.calc_for_year: the list of the date it returns, empty when it
\* returns None, or the exception of a date constructor
calc_for_year(holiday, year) ==
    Then(datetime_date(year, 1, 1), LAMBDA validated :
        IF holiday.type = "fixed"
        THEN IF \E s \in holiday.start_year : year < s THEN Ok(<<>>)
             ELSE IF \E e \in holiday.end_year : year > e THEN Ok(<<>>)
             ELSE Then(datetime_date(year, holiday.month, holiday.day),
                       LAMBDA fixed : Ok(<<fixed>>))
        ELSE Then(_delta_pascoa(year, holiday.delta),
                  LAMBDA func_response : Ok(<<func_response>>)))

---------------------------------------------------------------------------
(* dias_uteis/__init__.py *)

\* _get_year_holidays that leaves out a date that a later rule resolves to
\* as well
RECURSIVE _get_year_holidays_distinct(_, _)
_get_year_holidays_distinct(year, holidays) ==
    IF holidays = <<>> THEN Ok(<<>>)
    ELSE Then(calc_for_year(Head(holidays), year), LAMBDA holiday_date :
         Then(_get_year_holidays_distinct(year, Tail(holidays)),
              LAMBDA holidays_dates :
         IF holiday_date # <<>> /\ Contains(holidays_dates, holiday_date[1])
         THEN Ok(holidays_dates)
         ELSE Ok(holiday_date \o holidays_dates)))

RECURSIVE _get_year_holidays(_, _)
_get_year_holidays(year, holidays) ==
    IF holidays = <<>> THEN Ok(<<>>)
    ELSE Then(calc_for_year(Head(holidays), year), LAMBDA holiday_date :
         Then(_get_year_holidays(year, Tail(holidays)), LAMBDA holidays_dates :
         Ok(holiday_date \o holidays_dates)))

\* _get_year_dus with the loop test "date < last_date_of_year"
_get_year_dus_stops_early(year, holidays) ==
    Then(IF holidays # <<>> THEN _get_year_holidays(year, holidays) ELSE Ok(<<>>),
         LAMBDA year_holidays :
    Then(datetime_date(year, 1, 1), LAMBDA first :
    Then(datetime_date(year, 12, 31), LAMBDA last_date_of_year :
    LET days == [i \in 1..(last_date_of_year - first) |-> first + i - 1]
        keep(date) == Weekday(date) < 5 /\ ~Contains(year_holidays, date)
    IN  Ok(SelectSeq(days, keep)))))

\* _get_year_dus that takes a date for a holiday when it occurs exactly once
\* among the resolved dates
_get_year_dus_counts_holiday_once(year, holidays) ==
    Then(IF holidays # <<>> THEN _get_year_holidays(year, holidays) ELSE Ok(<<>>),
         LAMBDA year_holidays :
    Then(datetime_date(year, 1, 1), LAMBDA first :
    Then(datetime_date(year, 12, 31), LAMBDA last_date_of_year :
    Then(date_add(last_date_of_year, 1), LAMBDA past_last_date :
    LET days == [i \in 1..(past_last_date - first) |-> first + i - 1]
        count(date) == Cardinality({i \in 1..Len(year_holidays) :
                                       year_holidays[i] = date})
        keep(date) == Weekday(date) < 5 /\ count(date) # 1
    IN  Ok(SelectSeq(days, keep))))))

\* _get_year_dus with the weekday test "date.weekday() < 6"
_get_year_dus_six_day_week(year, holidays) ==
    Then(IF holidays # <<>> THEN _get_year_holidays(year, holidays) ELSE Ok(<<>>),
         LAMBDA year_holidays :
    Then(datetime_date(year, 1, 1), LAMBDA first :
    Then(datetime_date(year, 12, 31), LAMBDA last_date_of_year :
    Then(date_add(last_date_of_year, 1), LAMBDA past_last_date :
    LET days == [i \in 1..(past_last_date - first) |-> first + i - 1]
        keep(date) == Weekday(date) < 6 /\ ~Contains(year_holidays, date)
    IN  Ok(SelectSeq(days, keep))))))

\* The loop of _get_year_dus runs over 1 January..31 December and steps to
\* the day after 31 December before its test ends it: in year MAXYEAR that
\* last step leaves the range of dates and raises OverflowError.
_get_year_dus(year, holidays) ==
    Then(IF holidays # <<>> THEN _get_year_holidays(year, holidays) ELSE Ok(<<>>),
         LAMBDA year_holidays :
    Then(datetime_date(year, 1, 1), LAMBDA first :
    Then(datetime_date(year, 12, 31), LAMBDA last_date_of_year :
    Then(date_add(last_date_of_year, 1), LAMBDA past_last_date :
    LET days == [i \in 1..(past_last_date - first) |-> first + i - 1]
        keep(date) == Weekday(date) < 5 /\ ~Contains(year_holidays, date)
    IN  Ok(SelectSeq(days, keep))))))

\* _get_years_between_two_dates without the branch for end_date <= start_date
_get_years_between_two_dates_ascending_only(start_date, end_date) ==
    Sorted(RangeUp(YearOf(start_date), YearOf(end_date) + 1))

_get_years_between_two_dates(start_date, end_date) ==
    IF end_date > start_date
    THEN Sorted(RangeUp(YearOf(start_date), YearOf(end_date) + 1))
    ELSE Sorted(RangeDown(YearOf(start_date), YearOf(end_date) - 1))

\* lists[first] \o lists[first + 1] \o ... \o lists[Len(lists)]
RECURSIVE Concat(_, _)
Concat(lists, first) ==
    IF first > Len(lists) THEN <<>>
    ELSE lists[first] \o Concat(lists, first + 1)

\* "all_dus += ..." over a list of results, one per year: the exception of
\* the first year that raised one, else the lists one after the other
Extend(year_lists) ==
    LET raised == {i \in 1..Len(year_lists) : ~IsOk(year_lists[i])}
    IN  IF raised # {}
        THEN year_lists[CHOOSE i \in raised : \A j \in raised : i <= j]
        ELSE Ok(Concat([i \in 1..Len(year_lists) |-> year_lists[i].val], 1))

\* The loop "for year in years: all_dus += _get_year_dus(year, ...)"
_get_all_dus_for_years(years) ==
    Extend([i \in 1..Len(years) |-> _get_year_dus(years[i], national_holidays)])

is_du(date) ==
    Then(_get_year_dus(YearOf(date), national_holidays), LAMBDA year_dus_ :
    Ok(Contains(year_dus_, date)))

\* is_holiday that reports a holiday only on Monday..Friday
is_holiday_weekdays_only(date) ==
    Then(_get_year_holidays(YearOf(date), national_holidays), LAMBDA holidays :
    Ok(Weekday(date) < 5 /\ Contains(holidays, date)))

is_holiday(date) ==
    Then(_get_year_holidays(YearOf(date), national_holidays), LAMBDA holidays :
    Ok(Contains(holidays, date)))

\* The loop of a scan, not yet ended, about to test `date`
Scanning(date) == [err |-> "scanning", val |-> date]

IsScanning(r) == r.err = "scanning"

\* "while True" around one pass of a loop: the loop again from the date the
\* pass stepped to, or what the pass returned or raised
WhileTrue(pass, loop(_)) == IF IsScanning(pass) THEN loop(pass.val) ELSE pass

\* One pass of the loop of _find_du that steps over `date` before testing
\* it, as a do-while loop would
_find_du_iteration_steps_first(date, direction) ==
    Then(date_add(date, direction), LAMBDA next :
    Then(is_du(next), LAMBDA found :
    IF found THEN Ok(next) ELSE Scanning(next)))

\* One pass of the loop of _find_du at `date`: the date returned, the
\* exception raised, or the loop about to test the next date
_find_du_iteration(date, direction) ==
    Then(is_du(date), LAMBDA found :
    IF found THEN Ok(date)
    ELSE Then(date_add(date, direction), LAMBDA next : Scanning(next)))

RECURSIVE _find_du(_, _)
_find_du(start_date, direction) ==
    WhileTrue(_find_du_iteration(start_date, direction),
              LAMBDA date : _find_du(date, direction))

\* delta_du with a window of days_delta calendar days instead of days_delta * 4
delta_du_narrow_window(from_date, days_delta) ==
    Then(is_du(from_date), LAMBDA business :
    IF ~business THEN Raise("ValueError")
    ELSE Then(date_add(from_date, -days_delta), LAMBDA start_calendar_date :
         Then(date_add(from_date, days_delta), LAMBDA end_calendar_date :
         Then(_get_all_dus_for_years(
                  _get_years_between_two_dates(start_calendar_date,
                                               end_calendar_date)),
              LAMBDA all_dus :
         Then(IndexOf(all_dus, from_date), LAMBDA date_position :
         Subscript(all_dus, date_position + days_delta))))))

\* The window of delta_du without the factor 4 on days_delta
delta_du_window_factor_one(from_date, days_delta) ==
    Then(date_add(from_date, -days_delta), LAMBDA start_calendar_date :
    Then(date_add(from_date, days_delta), LAMBDA end_calendar_date :
    _get_all_dus_for_years(
        _get_years_between_two_dates(start_calendar_date, end_calendar_date))))

\* all_dus of delta_du: the business days of every year touched by the
\* calendar window from_date - 4 * days_delta .. from_date + 4 * days_delta
delta_du_window(from_date, days_delta) ==
    Then(date_add(from_date, -days_delta * 4), LAMBDA start_calendar_date :
    Then(date_add(from_date, days_delta * 4), LAMBDA end_calendar_date :
    _get_all_dus_for_years(
        _get_years_between_two_dates(start_calendar_date, end_calendar_date))))

\* delta_du that returns from_date for days_delta = 0 before testing it
delta_du_zero_shortcut(from_date, days_delta) ==
    IF days_delta = 0 THEN Ok(from_date)
    ELSE Then(is_du(from_date), LAMBDA business :
         IF ~business THEN Raise("ValueError")
         ELSE Then(delta_du_window(from_date, days_delta), LAMBDA all_dus :
              Then(IndexOf(all_dus, from_date), LAMBDA date_position :
              Subscript(all_dus, date_position + days_delta))))

delta_du(from_date, days_delta) ==
    Then(is_du(from_date), LAMBDA business :
    IF ~business THEN Raise("ValueError")
    ELSE Then(delta_du_window(from_date, days_delta), LAMBDA all_dus :
         Then(IndexOf(all_dus, from_date), LAMBDA date_position :
         Subscript(all_dus, date_position + days_delta))))

\* last_du that looks for its anchor backwards
last_du_anchors_backwards(date) ==
    Then(is_du(date), LAMBDA business :
    IF ~business
    THEN Then(_find_du(date, -1), LAMBDA anchor : delta_du(anchor, -1))
    ELSE delta_du(date, -1))

last_du(date) ==
    Then(is_du(date), LAMBDA business :
    IF ~business
    THEN Then(_find_du(date, 1), LAMBDA anchor : delta_du(anchor, -1))
    ELSE delta_du(date, -1))

\* next_du that looks for its anchor forwards
next_du_anchors_forwards(date) ==
    Then(is_du(date), LAMBDA business :
    IF ~business
    THEN Then(_find_du(date, 1), LAMBDA anchor : delta_du(anchor, 1))
    ELSE delta_du(date, 1))

next_du(date) ==
    Then(is_du(date), LAMBDA business :
    IF ~business
    THEN Then(_find_du(date, -1), LAMBDA anchor : delta_du(anchor, 1))
    ELSE delta_du(date, 1))

\* range_du that ignores include_end
range_du_always_open(start, end, include_end) ==
    Then(_get_all_dus_for_years(_get_years_between_two_dates(start, end)),
         LAMBDA all_dus :
    LET open(du) == du >= start /\ du < end
    IN  Ok(SelectSeq(all_dus, open)))

range_du(start, end, include_end) ==
    Then(_get_all_dus_for_years(_get_years_between_two_dates(start, end)),
         LAMBDA all_dus :
    LET closed(du) == du >= start /\ du <= end
        open(du) == du >= start /\ du < end
    IN  IF include_end THEN Ok(SelectSeq(all_dus, closed))
        ELSE Ok(SelectSeq(all_dus, open)))

\* year_dus that leaves include_end at its default
year_dus_exclusive_end(year) ==
    Then(datetime_date(year, 1, 1), LAMBDA start :
    Then(datetime_date(year, 12, 31), LAMBDA end :
    range_du(start, end, FALSE)))

year_dus(year) ==
    Then(datetime_date(year, 1, 1), LAMBDA start :
    Then(datetime_date(year, 12, 31), LAMBDA end :
    range_du(start, end, TRUE)))

year_holidays(year) == _get_year_holidays(year, national_holidays)

\* diff that filters on a <= date <= b without ordering the two dates
diff_unsorted_bounds(a, b) ==
    LET lo == IF YearOf(a) <= YearOf(b) THEN YearOf(a) ELSE YearOf(b)
        hi == IF YearOf(a) <= YearOf(b) THEN YearOf(b) ELSE YearOf(a)
        years == RangeUp(lo, hi + 1)
        inside(_date) == a <= _date /\ _date <= b
    IN  Then(_get_all_dus_for_years(years), LAMBDA all_dus :
        LET dus == SelectSeq(all_dus, inside)
        IN  Ok((Len(dus) - 1) * (IF b > a THEN 1 ELSE -1)))

\* diff that returns len(dus) instead of len(dus) - 1
diff_counts_both_ends(a, b) ==
    LET lo == IF YearOf(a) <= YearOf(b) THEN YearOf(a) ELSE YearOf(b)
        hi == IF YearOf(a) <= YearOf(b) THEN YearOf(b) ELSE YearOf(a)
        years == RangeUp(lo, hi + 1)
        _min_date == IF a <= b THEN a ELSE b
        _max_date == IF a <= b THEN b ELSE a
        inside(_date) == _min_date <= _date /\ _date <= _max_date
    IN  Then(_get_all_dus_for_years(years), LAMBDA all_dus :
        LET dus == SelectSeq(all_dus, inside)
        IN  Ok(Len(dus) * (IF b > a THEN 1 ELSE -1)))

\* diff that builds the business days of a.year only
diff_first_year_only(a, b) ==
    LET years == <<YearOf(a)>>
        _min_date == IF a <= b THEN a ELSE b
        _max_date == IF a <= b THEN b ELSE a
        inside(_date) == _min_date <= _date /\ _date <= _max_date
    IN  Then(_get_all_dus_for_years(years), LAMBDA all_dus :
        LET dus == SelectSeq(all_dus, inside)
        IN  Ok((Len(dus) - 1) * (IF b > a THEN 1 ELSE -1)))

diff(a, b) ==
    LET lo == IF YearOf(a) <= YearOf(b) THEN YearOf(a) ELSE YearOf(b)
        hi == IF YearOf(a) <= YearOf(b) THEN YearOf(b) ELSE YearOf(a)
        years == RangeUp(lo, hi + 1)
        _min_date == IF a <= b THEN a ELSE b
        _max_date == IF a <= b THEN b ELSE a
        inside(_date) == _min_date <= _date /\ _date <= _max_date
    IN  Then(_get_all_dus_for_years(years), LAMBDA all_dus :
        LET dus == SelectSeq(all_dus, inside)
        IN  Ok((Len(dus) - 1) * (IF b > a THEN 1 ELSE -1)))

---------------------------------------------------------------------------
(* b3/di1.py *)

_CONTRATO_MES ==
    [F |-> 1, G |-> 2, H |-> 3, J |-> 4, K |-> 5, M |-> 6,
     N |-> 7, Q |-> 8, U |-> 9, V |-> 10, X |-> 11, Z |-> 12]

verifica_ticker(ticker) ==
    IF Len(ticker) # 6 THEN Raise("ValueError")
    ELSE IF SubSeq(ticker, 1, 3) # <<"D", "I", "1">> THEN Raise("ValueError")
    ELSE IF ticker[4] \notin DOMAIN _CONTRATO_MES THEN Raise("ValueError")
    ELSE IF ~isdigit(SubSeq(ticker, 5, 6)) THEN Raise("ValueError")
    ELSE Ok(None)

\* wrapper of the decorator _verifica_ticker around func
wrapper(ticker, func(_)) ==
    Then(verifica_ticker(ticker), LAMBDA verified : func(ticker))

\* The body of vencimento up to its loop: the loop about to test the first
\* day of the contract month
vencimento_data(ticker) ==
    LET contrato == ticker[4]
        mes == _CONTRATO_MES[contrato]
    IN  Then(int(<<"2", "0">> \o SubSeq(ticker, 5, 6)), LAMBDA ano :
        Then(datetime_date(ano, mes, 1), LAMBDA data : Scanning(data)))

\* One pass of the loop of vencimento with "data - datetime.timedelta(1)"
vencimento_iteration_steps_back(data) ==
    Then(is_du(data), LAMBDA found :
    IF found THEN Ok(data)
    ELSE Then(date_add(data, -1), LAMBDA next : Scanning(next)))

\* One pass of the loop of vencimento at `data`: the date returned, the
\* exception raised, or the loop about to test the next date
vencimento_iteration(data) ==
    Then(is_du(data), LAMBDA found :
    IF found THEN Ok(data)
    ELSE Then(date_add(data, 1), LAMBDA next : Scanning(next)))

\* The call of the decorated vencimento, up to the loop
vencimento(ticker) == wrapper(ticker, vencimento_data)

---------------------------------------------------------------------------
(* sgs/__init__.py *)

\* The while loop of _make_chunks and the yield after it: the pairs yielded
\* from (chunk_inicio, chunk_fim) on
RECURSIVE _make_chunks_loop(_, _, _, _)
_make_chunks_loop(inicio, chunk_inicio, chunk_fim, chunk_size) ==
    IF chunk_inicio >= inicio
    THEN Then(date_add(chunk_inicio, -1), LAMBDA next_fim :
         Then(date_add(chunk_inicio, -chunk_size), LAMBDA next_inicio :
         Then(_make_chunks_loop(inicio, next_inicio, next_fim, chunk_size),
              LAMBDA later :
         Ok(<< <<chunk_inicio, chunk_fim>> >> \o later))))
    ELSE Ok(<< <<inicio, chunk_fim>> >>)

\* list(_make_chunks(inicio, fim, chunk_size)) for two dates: the pairs in
\* the order they are yielded
_make_chunks(inicio, fim, chunk_size) ==
    IF fim - inicio <= chunk_size THEN Ok(<< <<inicio, fim>> >>)
    ELSE Then(date_add(fim, -chunk_size), LAMBDA chunk_inicio :
         _make_chunks_loop(inicio, chunk_inicio, fim, chunk_size))

---------------------------------------------------------------------------
(* Inputs of the calls *)

\* Dates the windows of input dates are centred on: the turn of the year
\* 2024/2025 (31 December a business day, 1 January a holiday), Carnival
\* 2024 (Saturday to Tuesday closed) and the November 2024 holidays.
AnchorDates == {Date(2024, 12, 29), Date(2024, 2, 11), Date(2024, 11, 17)}

Dates == UNION {(c - DateRadius)..(c + DateRadius) : c \in AnchorDates}

Deltas == ((-MaxDelta)..MaxDelta) \cup {-FarDelta, FarDelta}

Years == YearLo..YearHi

\* Years that datetime.date rejects, on either side of MINYEAR..MAXYEAR
OutOfRangeYears ==
    ((MINYEAR - InvalidYearMargin)..(MINYEAR - 1))
    \cup ((MAXYEAR + 1)..(MAXYEAR + InvalidYearMargin))

CalendarDates == Date(CalendarYearLo, 1, 1)..Date(CalendarYearHi, 12, 31)

RuleYears == (2024 - RuleYearRadius)..(2024 + RuleYearRadius)

\* start_year and end_year of a rule: unset, or one of RuleYears
YearBounds == {{}} \cup {{y} : y \in RuleYears}

\* The rules of the registry, and 20 November with every validity window
Rules ==
    {NATIONAL_HOLIDAYS[i] : i \in 1..Len(NATIONAL_HOLIDAYS)}
    \cup {Fixed(11, 20, s, e) : s \in YearBounds, e \in YearBounds}

\* Start dates of the scans of _find_du: the windows of Dates, and the
\* first and the last dates that datetime.date has
ScanDates ==
    Dates \cup (1..(1 + DateRadius)) \cup ((MaxOrdinal - DateRadius)..MaxOrdinal)

\* The characters a ticker ends in: the ten decimal digits, a letter, a
\* sign and the two digits outside ASCII
YearChars ==
    {"0", "1", "2", "3", "4", "5", "6", "7", "8", "9", "a", "-",
     SuperscriptTwo, ArabicIndicThree}

\* The twelve contract letters, a capital that is none, a contract letter
\* in lower case and a digit
ContractChars == DOMAIN _CONTRATO_MES \cup {"A", "f", "1"}

\* DI1 followed by every contract character and every two year characters;
\* F24 after other prefixes; tickers of 5 and of 7 characters
Tickers ==
    {<<"D", "I", "1", l, y, z>> : l \in ContractChars, y \in YearChars, z \in YearChars}
    \cup {p \o <<"F", "2", "4">> :
              p \in {<<"D", "I", "2">>, <<"d", "i", "1">>, <<"D", "O", "L">>,
                     <<"I", "D", "1">>}}
    \cup {<<"D", "I", "1", l, y>> : l \in ContractChars, y \in YearChars}
    \cup {<<"D", "I", "1", l, "2", y, z>> :
              l \in ContractChars, y \in YearChars, z \in {"0", "a"}}

\* inicio and fim of _make_chunks
ChunkDates == Date(2024, 1, 1)..(Date(2024, 1, 1) + MaxChunkSpan)

ChunkSizes == 1..MaxChunkSize

---------------------------------------------------------------------------
(* The calls: a caller is either between calls (op = "none"), inside the    *)
(* loop of a scan (ret is Scanning), or holds the result of the call it    *)
(* made last                                                               *)

Idle == op = "none"

\* The list after a call whose loop over it takes the rules off the list
\* ("while holidays: holiday = holidays.pop(0)")
holidays_after_call_drained(holidays) == <<>>

\* The list NATIONAL_HOLIDAYS after a call that received it as `holidays`:
\* no statement of dias_uteis assigns to the name, appends to the list,
\* removes from it or reorders it (_get_year_holidays only iterates over it),
\* and calc_for_year assigns no field of a Holiday
holidays_after_call(holidays) == holidays

Init ==
    /\ op = "none"
    /\ args = <<>>
    /\ ret = Ok(0)
    /\ national_holidays = NATIONAL_HOLIDAYS

CallIsDu ==
    \E d \in Dates \cup CalendarDates :
        /\ Idle
        /\ op' = "is_du"
        /\ args' = [date |-> d]
        /\ ret' = is_du(d)
        /\ national_holidays' = holidays_after_call(national_holidays)

CallDeltaDu ==
    \E d \in Dates, n \in Deltas :
        /\ Idle
        /\ op' = "delta_du"
        /\ args' = [from_date |-> d, days_delta |-> n]
        /\ ret' = delta_du(d, n)
        /\ national_holidays' = holidays_after_call(national_holidays)

CallLastDu ==
    \E d \in Dates :
        /\ Idle
        /\ op' = "last_du"
        /\ args' = [date |-> d]
        /\ ret' = last_du(d)
        /\ national_holidays' = holidays_after_call(national_holidays)

CallNextDu ==
    \E d \in Dates :
        /\ Idle
        /\ op' = "next_du"
        /\ args' = [date |-> d]
        /\ ret' = next_du(d)
        /\ national_holidays' = holidays_after_call(national_holidays)

CallRangeDu ==
    \E s \in Dates, e \in Dates, inc \in BOOLEAN :
        /\ Idle
        /\ op' = "range_du"
        /\ args' = [start |-> s, end |-> e, include_end |-> inc]
        /\ ret' = range_du(s, e, inc)
        /\ national_holidays' = holidays_after_call(national_holidays)

CallYearDus ==
    \E y \in Years \cup OutOfRangeYears :
        /\ Idle
        /\ op' = "year_dus"
        /\ args' = [year |-> y]
        /\ ret' = year_dus(y)
        /\ national_holidays' = holidays_after_call(national_holidays)

CallDiff ==
    \E a \in Dates, b \in Dates :
        /\ Idle
        /\ op' = "diff"
        /\ args' = [a |-> a, b |-> b]
        /\ ret' = diff(a, b)
        /\ national_holidays' = holidays_after_call(national_holidays)

CallIsHoliday ==
    \E d \in Dates \cup CalendarDates :
        /\ Idle
        /\ op' = "is_holiday"
        /\ args' = [date |-> d]
        /\ ret' = is_holiday(d)
        /\ national_holidays' = holidays_after_call(national_holidays)

CallYearHolidays ==
    \E y \in Years \cup OutOfRangeYears :
        /\ Idle
        /\ op' = "year_holidays"
        /\ args' = [year |-> y]
        /\ ret' = year_holidays(y)
        /\ national_holidays' = holidays_after_call(national_holidays)

\* calc_for_year of a rule that is not in the registry touches no list
CallCalcForYear ==
    \E h \in Rules, y \in RuleYears \cup OutOfRangeYears :
        /\ Idle
        /\ op' = "calc_for_year"
        /\ args' = [holiday |-> h, year |-> y]
        /\ ret' = calc_for_year(h, y)
        /\ UNCHANGED national_holidays

CallCalcPascoa ==
    \E y \in MINYEAR..MAXYEAR :
        /\ Idle
        /\ op' = "_calc_pascoa"
        /\ args' = [year |-> y]
        /\ ret' = _calc_pascoa(y)
        /\ UNCHANGED national_holidays

\* _find_du enters its loop
CallFindDu ==
    \E d \in ScanDates, direction \in {-1, 1} :
        /\ Idle
        /\ op' = "_find_du"
        /\ args' = [start_date |-> d, direction |-> direction]
        /\ ret' = Scanning(d)
        /\ UNCHANGED national_holidays

\* One pass of the loop of _find_du
FindDuIteration ==
    /\ op = "_find_du"
    /\ IsScanning(ret)
    /\ ret' = _find_du_iteration(ret.val, args.direction)
    /\ national_holidays' = holidays_after_call(national_holidays)
    /\ UNCHANGED <<op, args>>

CallVerificaTicker ==
    \E ticker \in Tickers :
        /\ Idle
        /\ op' = "verifica_ticker"
        /\ args' = [ticker |-> ticker]
        /\ ret' = verifica_ticker(ticker)
        /\ UNCHANGED national_holidays

\* The decorated vencimento verifies the ticker and enters its loop
CallVencimento ==
    \E ticker \in Tickers :
        /\ Idle
        /\ op' = "vencimento"
        /\ args' = [ticker |-> ticker]
        /\ ret' = vencimento(ticker)
        /\ UNCHANGED national_holidays

\* One pass of the loop of vencimento
VencimentoIteration ==
    /\ op = "vencimento"
    /\ IsScanning(ret)
    /\ ret' = vencimento_iteration(ret.val)
    /\ national_holidays' = holidays_after_call(national_holidays)
    /\ UNCHANGED <<op, args>>

CallMakeChunks ==
    \E inicio \in ChunkDates, fim \in ChunkDates, chunk_size \in ChunkSizes :
        /\ Idle
        /\ inicio <= fim
        /\ op' = "_make_chunks"
        /\ args' = [inicio |-> inicio, fim |-> fim, chunk_size |-> chunk_size]
        /\ ret' = _make_chunks(inicio, fim, chunk_size)
        /\ UNCHANGED national_holidays

\* The caller drops the result and is ready for its next call
Return ==
    /\ ~Idle
    /\ ~IsScanning(ret)
    /\ op' = "none"
    /\ args' = <<>>
    /\ ret' = Ok(0)
    /\ UNCHANGED national_holidays

Next ==
    \/ CallIsDu
    \/ CallDeltaDu
    \/ CallLastDu
    \/ CallNextDu
    \/ CallRangeDu
    \/ CallYearDus
    \/ CallDiff
    \/ CallIsHoliday
    \/ CallYearHolidays
    \/ CallCalcForYear
    \/ CallCalcPascoa
    \/ CallFindDu
    \/ FindDuIteration
    \/ CallVerificaTicker
    \/ CallVencimento
    \/ VencimentoIteration
    \/ CallMakeChunks
    \/ Return

Spec == Init /\ [][Next]_vars

---------------------------------------------------------------------------
(* What the properties are stated against: the calendar read off the       *)
(* registry date by date, without the per-year lists of the code            *)

HolidaySet(year) ==
    LET resolved == _get_year_holidays(year, NATIONAL_HOLIDAYS)
    IN  {resolved.val[i] : i \in 1..Len(resolved.val)}

IsBusinessDay(date) == Weekday(date) < 5 /\ date \notin HolidaySet(YearOf(date))

\* The business days among the calendar dates first..last
BusinessDaysIn(first, last) ==
    IF first > last THEN {}
    ELSE LET years == YearOf(first)..YearOf(last)
             holidays == UNION {HolidaySet(y) : y \in years}
         IN  {x \in first..last : Weekday(x) < 5 /\ x \notin holidays}

StrictlyAscending(list) == \A i \in 1..(Len(list) - 1) : list[i] < list[i + 1]

Elements(list) == {list[i] : i \in 1..Len(list)}

---------------------------------------------------------------------------
(* Properties *)

\* C1: for every calendar date d, is_du(d) is true if and only if d's
\* weekday is Monday..Friday and d is not among the holiday dates resolved
\* from the registry for year d.year.
C1_IsDuIffWeekdayAndNotHoliday ==
    op = "is_du" =>
        ret.val = (Weekday(args.date) < 5
                   /\ args.date \notin HolidaySet(YearOf(args.date)))

\* is_du answered False for a Monday..Friday date that is a holiday
C1_Witness ==
    /\ op = "is_du"
    /\ ret.val = FALSE
    /\ Weekday(args.date) < 5
    /\ args.date \in HolidaySet(YearOf(args.date))

\* C2: for every business day d and every n, delta_du(d, n) returns the
\* business day n positions away from d in the ascending sequence of all
\* business days: d for n = 0, the n-th business day after d for n > 0, the
\* |n|-th business day before d for n < 0, also across a year boundary.
C2_DeltaDuIsNthBusinessDay ==
    (op = "delta_du" /\ IsBusinessDay(args.from_date)) =>
        /\ IsOk(ret)
        /\ IsBusinessDay(ret.val)
        /\ args.days_delta = 0 => ret.val = args.from_date
        /\ args.days_delta > 0 =>
              /\ ret.val > args.from_date
              /\ Cardinality(BusinessDaysIn(args.from_date + 1, ret.val))
                    = args.days_delta
        /\ args.days_delta < 0 =>
              /\ ret.val < args.from_date
              /\ Cardinality(BusinessDaysIn(ret.val, args.from_date - 1))
                    = -args.days_delta

\* delta_du went back from a business day of one year into the year before
C2_Witness ==
    /\ op = "delta_du"
    /\ IsOk(ret)
    /\ args.days_delta < 0
    /\ YearOf(ret.val) < YearOf(args.from_date)

\* C3: for every business day d and every n with |n| <= 5000 (here: every
\* n of Deltas), delta_du(delta_du(d, n), -n) = d.
C3_DeltaDuRoundTrip ==
    (op = "delta_du" /\ IsBusinessDay(args.from_date)) =>
        /\ IsOk(ret)
        /\ delta_du(ret.val, -args.days_delta) = Ok(args.from_date)

\* delta_du went forward into the next year, so the way back crosses the
\* year boundary with a negative days_delta
C3_Witness ==
    /\ op = "delta_du"
    /\ IsOk(ret)
    /\ args.days_delta > 0
    /\ YearOf(ret.val) > YearOf(args.from_date)
    /\ delta_du(ret.val, -args.days_delta) = Ok(args.from_date)

\* C4: diff(a, a) = 0 for every calendar date a, weekends and holidays
\* included.
C4_DiffOfADateWithItselfIsZero ==
    (op = "diff" /\ args.a = args.b) => ret.val = 0

\* C5: diff(a, b) = -diff(b, a) for every two distinct calendar dates,
\* business days or not, in the same year or not.
C5_DiffAntisymmetric ==
    (op = "diff" /\ args.a # args.b) => ret.val = -(diff(args.b, args.a).val)

\* diff ran backwards across the year boundary from a date that is no
\* business day
C5_Witness ==
    /\ op = "diff"
    /\ args.b < args.a
    /\ YearOf(args.b) < YearOf(args.a)
    /\ ~IsBusinessDay(args.a)
    /\ ret.val < -1

\* C6: for every business day a and every n for which delta_du(a, n)
\* succeeds, diff(a, delta_du(a, n)) = n; in particular, for a business day
\* a, diff(a, next_du(a)) = 1 and diff(a, last_du(a)) = -1.
C6_DiffOfDeltaDuIsDelta ==
    /\ (op = "delta_du" /\ IsOk(ret)) =>
          diff(args.from_date, ret.val) = Ok(args.days_delta)
    /\ (op = "next_du" /\ IsBusinessDay(args.date) /\ IsOk(ret)) =>
          diff(args.date, ret.val) = Ok(1)
    /\ (op = "last_du" /\ IsBusinessDay(args.date) /\ IsOk(ret)) =>
          diff(args.date, ret.val) = Ok(-1)

\* last_du of the first business day of a year: the day before it lies in
\* the year before
C6_Witness ==
    /\ op = "last_du"
    /\ IsBusinessDay(args.date)
    /\ IsOk(ret)
    /\ YearOf(ret.val) < YearOf(args.date)
    /\ diff(args.date, ret.val) = Ok(-1)

\* C7: for all dates a and b, diff(a, b) is (count - 1) times the sign,
\* where count is the number of business days d with
\* min(a, b) <= d <= max(a, b), whatever years they lie in, and the sign is
\* +1 if b > a and -1 otherwise; neither a nor b needs to be a business day.
\* (A window without business days has count - 1 = -1: the product is then
\* -1 for b > a and +1 otherwise.)
C7_DiffIsWindowCountMinusOne ==
    op = "diff" =>
        LET lo == IF args.a <= args.b THEN args.a ELSE args.b
            hi == IF args.a <= args.b THEN args.b ELSE args.a
            count == Cardinality(BusinessDaysIn(lo, hi))
        IN  ret.val = (count - 1) * (IF args.b > args.a THEN 1 ELSE -1)

\* diff across the year boundary between two dates neither of which is a
\* business day, with business days between them
C7_Witness ==
    /\ op = "diff"
    /\ YearOf(args.a) < YearOf(args.b)
    /\ ~IsBusinessDay(args.a)
    /\ ~IsBusinessDay(args.b)
    /\ ret.val > 0

\* C8: for all dates start and end, in either order, and both values of
\* include_end, range_du returns exactly the ascending sequence of all
\* business days d with start <= d < end (start <= d <= end when include_end
\* is true), across every year spanned; it is empty when start > end.
C8_RangeDuIsBusinessDaysOfInterval ==
    op = "range_du" =>
        /\ StrictlyAscending(ret.val)
        /\ Elements(ret.val) =
              BusinessDaysIn(args.start,
                             IF args.include_end THEN args.end ELSE args.end - 1)
        /\ args.start > args.end => ret.val = <<>>

\* range_du over two years with include_end and a business day as end: the
\* list ends with end
C8_Witness ==
    /\ op = "range_du"
    /\ args.include_end
    /\ YearOf(args.start) < YearOf(args.end)
    /\ IsBusinessDay(args.end)
    /\ ret.val # <<>>
    /\ ret.val[Len(ret.val)] = args.end

\* C9: for every year Y in 1950..2100, year_dus(Y) is strictly ascending
\* (so without duplicates), every element lies in [1 January Y,
\* 31 December Y] and every element has weekday Monday..Friday.
C9_YearDusAscendingWeekdaysOfYear ==
    (op = "year_dus" /\ args.year \in Years) =>
        /\ StrictlyAscending(ret.val)
        /\ \A i \in 1..Len(ret.val) :
              /\ Date(args.year, 1, 1) <= ret.val[i]
              /\ ret.val[i] <= Date(args.year, 12, 31)
              /\ Weekday(ret.val[i]) \in 0..4

\* year_dus of 2023, whose 249 business days the tests count
C9_Witness ==
    /\ (op = "year_dus" /\ args.year \in Years)
    /\ args.year = 2023
    /\ Len(ret.val) = 249

\* C10: for every calendar date d, is_du(d) = (d is an element of
\* year_dus(d.year)); equivalently every element of year_dus(Y) satisfies
\* is_du and no other date of year Y does.
C10_IsDuIffInYearDus ==
    /\ op = "is_du" =>
          ret.val = Contains(year_dus(YearOf(args.date)).val, args.date)
    /\ (op = "year_dus" /\ args.year \in Years) =>
          \A d \in Date(args.year, 1, 1)..Date(args.year, 12, 31) :
              is_du(d).val <=> Contains(ret.val, d)

\* is_du answered True for a 31 December, the last element of year_dus
C10_Witness ==
    /\ op = "is_du"
    /\ ret.val = TRUE
    /\ args.date = Date(YearOf(args.date), 12, 31)

\* C11: delta_du(d, n) raises ValueError for every date d that is not a
\* business day and every n, n = 0 included, and returns no date.
C11_DeltaDuRejectsNonBusinessDay ==
    (op = "delta_du" /\ ~IsBusinessDay(args.from_date)) =>
        ret = Raise("ValueError")

\* delta_du was called with days_delta = 0 on a date that is no business
\* day, and raised
C11_Witness ==
    /\ op = "delta_du"
    /\ args.days_delta = 0
    /\ ~IsBusinessDay(args.from_date)
    /\ ret = Raise("ValueError")

\* C12: whenever position(d) + n falls outside the merged sequence of
\* delta_du's window (below 0, or at or above its length), delta_du raises
\* IndexError and returns no date, for negative as for positive n.
C12_DeltaDuRaisesOutsideWindow ==
    (op = "delta_du" /\ IsBusinessDay(args.from_date)
        /\ IsOk(delta_du_window(args.from_date, args.days_delta))) =>
        LET all_dus == delta_du_window(args.from_date, args.days_delta).val
            target == IndexOf(all_dus, args.from_date).val + args.days_delta
        IN  (target < 0 \/ target >= Len(all_dus)) => ret = Raise("IndexError")

\* The case of C12: a call of delta_du whose target index lies outside the
\* merged sequence
C12_IndexOutsideWindow ==
    /\ op = "delta_du"
    /\ IsBusinessDay(args.from_date)
    /\ IsOk(delta_du_window(args.from_date, args.days_delta))
    /\ LET all_dus == delta_du_window(args.from_date, args.days_delta).val
           target == IndexOf(all_dus, args.from_date).val + args.days_delta
       IN  target < 0 \/ target >= Len(all_dus)

C14_LastDuIsGreatestBusinessDayBefore ==
    op = "last_du" =>
        /\ IsOk(ret)
        /\ IsBusinessDay(ret.val)
        /\ ret.val < args.date
        /\ BusinessDaysIn(ret.val + 1, args.date - 1) = {}

\* last_du of a date that is no business day
C14_Witness ==
    /\ op = "last_du"
    /\ ~IsBusinessDay(args.date)
    /\ IsOk(ret)
    /\ ret.val < args.date - 1

\* C15: for every reference date r, business day or not, next_du(r) returns
\* the least business day strictly later than r.
C15_NextDuIsLeastBusinessDayAfter ==
    op = "next_du" =>
        /\ IsOk(ret)
        /\ IsBusinessDay(ret.val)
        /\ ret.val > args.date
        /\ BusinessDaysIn(args.date + 1, ret.val - 1) = {}

\* next_du of a date that is no business day
C15_Witness ==
    /\ op = "next_du"
    /\ ~IsBusinessDay(args.date)
    /\ IsOk(ret)
    /\ ret.val > args.date + 1

\* C16: for every year Y, the list returned by year_holidays(Y) is in
\* ascending date order.
C16_YearHolidaysAscending ==
    (op = "year_holidays" /\ args.year \in Years) =>
        \A i \in 1..(Len(ret.val) - 1) : ret.val[i] <= ret.val[i + 1]

\* C17: for every date d, is_holiday(d) is true if and only if at least one
\* rule of the registry resolves to d for year d.year, whatever the weekday
\* of d: a holiday on a Saturday or Sunday is reported as a holiday.
C17_IsHolidayIffSomeRuleResolvesToDate ==
    op = "is_holiday" =>
        ret.val = (\E i \in 1..Len(NATIONAL_HOLIDAYS) :
                      calc_for_year(NATIONAL_HOLIDAYS[i], YearOf(args.date))
                          = Ok(<<args.date>>))

\* is_holiday answered True for a Saturday or Sunday
C17_Witness ==
    /\ op = "is_holiday"
    /\ ret.val = TRUE
    /\ Weekday(args.date) >= 5

\* C18: for every year Y, a date that more than one rule resolves to is
\* removed from the business days once: the length of year_dus(Y) is the
\* number of Monday..Friday dates of Y minus the number of distinct resolved
\* holiday dates of Y that fall on Monday..Friday.
C18_YearDusCountsDistinctHolidays ==
    (op = "year_dus" /\ args.year \in Years) =>
        LET weekdays == {d \in Date(args.year, 1, 1)..Date(args.year, 12, 31) :
                            Weekday(d) < 5}
        IN  Len(ret.val) = Cardinality(weekdays)
                           - Cardinality(HolidaySet(args.year) \cap weekdays)

\* year_dus of a year in which two rules resolve to the same Monday..Friday
\* date
C18_Witness ==
    /\ (op = "year_dus" /\ args.year \in Years)
    /\ LET resolved == year_holidays(args.year).val
       IN  \E i \in 1..Len(resolved), j \in 1..Len(resolved) :
              /\ i < j
              /\ resolved[i] = resolved[j]
              /\ Weekday(resolved[i]) < 5

\* C19: a fixed rule resolves for year Y to date(Y, month, day) if and only
\* if (start_year is unset or Y >= start_year) and (end_year is unset or
\* Y <= end_year), and to None otherwise; so 20 November, whose rule has
\* start_year 2024, is a holiday and no business day exactly for the years
\* from 2024 on, and no holiday in any year before.
C19_FixedRuleValidityWindow ==
    /\ ((op = "calc_for_year" /\ args.year \in RuleYears) /\ args.holiday.type = "fixed") =>
          ret.val = IF /\ \A s \in args.holiday.start_year : args.year >= s
                       /\ \A e \in args.holiday.end_year : args.year <= e
                    THEN <<Date(args.year, args.holiday.month, args.holiday.day)>>
                    ELSE <<>>
    /\ (op = "year_holidays" /\ args.year \in Years) =>
          (Contains(ret.val, Date(args.year, 11, 20)) <=> args.year >= 2024)
    /\ op = "is_holiday" /\ args.date = Date(YearOf(args.date), 11, 20) =>
          (ret.val <=> YearOf(args.date) >= 2024)
    /\ (op = "year_dus" /\ args.year \in Years) /\ args.year >= 2024 =>
          ~Contains(ret.val, Date(args.year, 11, 20))
    /\ (op = "year_dus" /\ args.year \in Years) /\ args.year < 2024 =>
          (Contains(ret.val, Date(args.year, 11, 20))
              <=> Weekday(Date(args.year, 11, 20)) < 5)

\* The rule of 20 November resolved for its first year, 2024
C19_Witness ==
    /\ (op = "calc_for_year" /\ args.year \in RuleYears)
    /\ args.holiday = NATIONAL_HOLIDAYS[12]
    /\ args.year = 2024
    /\ ret.val = <<Date(2024, 11, 20)>>

C21_EasterIsLegalSundayInRange ==
    op = "_calc_pascoa" =>
        /\ IsOk(ret)
        /\ YearOf(ret.val) = args.year
        /\ Weekday(ret.val) = 6
        /\ Date(args.year, 3, 22) <= ret.val
        /\ ret.val <= Date(args.year, 4, 25)

\* _calc_pascoa returned 25 April, the latest Easter there is
C21_Witness ==
    /\ op = "_calc_pascoa"
    /\ ret = Ok(Date(args.year, 4, 25))

\* C22: resolving any rule, fixed or movable, for a year outside 1..9999
\* fails with ValueError (the InvalidYear error), and the year is validated
\* before the validity window is consulted: a fixed rule whose window
\* excludes that year fails as well instead of returning None; the failure
\* comes out of year_holidays and year_dus unchanged.
C22_InvalidYearRaisesBeforeWindow ==
    (/\ op \in {"calc_for_year", "year_holidays", "year_dus"}
     /\ (args.year < MINYEAR \/ args.year > MAXYEAR)) =>
        ret = Raise("ValueError")

\* calc_for_year raised for a year below MINYEAR that lies before the
\* start_year of the fixed rule it was asked to resolve
C22_Witness ==
    /\ op = "calc_for_year"
    /\ args.year < MINYEAR
    /\ args.holiday.type = "fixed"
    /\ \E s \in args.holiday.start_year : args.year < s
    /\ ret = Raise("ValueError")

\* C23: year_dus(2023) contains exactly 249 dates: the Monday..Friday dates
\* of 2023 minus the Monday..Friday holidays resolved from the 12 rules that
\* apply in 2023.
C23_YearDus2023Has249Dates ==
    (op = "year_dus" /\ args.year = 2023) =>
        LET weekdays == {d \in Date(2023, 1, 1)..Date(2023, 12, 31) : Weekday(d) < 5}
            resolved == _get_year_holidays(2023, NATIONAL_HOLIDAYS)
        IN  /\ IsOk(ret)
            /\ Len(ret.val) = 249
            /\ Len(resolved.val) = 12
            /\ Elements(ret.val) = weekdays \ Elements(resolved.val)

\* year_dus(2023) returned 249 dates, 20 November 2023 among them: the rule
\* of 20 November starts in 2024
C23_Witness ==
    /\ op = "year_dus"
    /\ args.year = 2023
    /\ Len(ret.val) = 249
    /\ Contains(ret.val, Date(2023, 11, 20))

\* The twelve contract letters in the order of their months
ContractLetters == <<"F", "G", "H", "J", "K", "M", "N", "Q", "U", "V", "X", "Z">>

\* DI1, a contract letter and two of the digits 0..9
WellFormedTicker(ticker) ==
    /\ Len(ticker) = 6
    /\ ticker[1] = "D" /\ ticker[2] = "I" /\ ticker[3] = "1"
    /\ ticker[4] \in Elements(ContractLetters)
    /\ ticker[5] \in {"0", "1", "2", "3", "4", "5", "6", "7", "8", "9"}
    /\ ticker[6] \in {"0", "1", "2", "3", "4", "5", "6", "7", "8", "9"}

\* Month and year of the contract of a well-formed ticker
ContractMonth(ticker) == CHOOSE m \in 1..12 : ContractLetters[m] = ticker[4]

ContractYear(ticker) ==
    2000 + 10 * DecimalValue[ticker[5]] + DecimalValue[ticker[6]]

FirstOfContractMonth(ticker) ==
    Date(ContractYear(ticker), ContractMonth(ticker), 1)

LastOfContractMonth(ticker) ==
    Date(ContractYear(ticker), ContractMonth(ticker),
         DaysInMonth(ContractYear(ticker), ContractMonth(ticker)))

\* C24: verifica_ticker returns without error if and only if the string has
\* length 6, starts with DI1, has one of the 12 contract letters in fourth
\* place and ends in two digits; every other string raises ValueError, and
\* the decorated functions (vencimento) raise that ValueError before
\* computing anything.
C24_VerificaTickerAcceptsExactlyWellFormed ==
    /\ op = "verifica_ticker" =>
          IF WellFormedTicker(args.ticker) THEN IsOk(ret)
          ELSE ret = Raise("ValueError")
    /\ (op = "vencimento" /\ ~WellFormedTicker(args.ticker)) =>
          ret = Raise("ValueError")

\* C25: for every valid ticker DI1<L><YY>, vencimento returns the first
\* business day of the contract month: the least business day on or after
\* the 1st of month(L) of year 20YY, which lies in that same month.
C25_VencimentoIsFirstBusinessDayOfMonth ==
    (op = "vencimento" /\ WellFormedTicker(args.ticker) /\ ~IsScanning(ret)) =>
        LET first == FirstOfContractMonth(args.ticker)
            last == LastOfContractMonth(args.ticker)
        IN  /\ IsOk(ret)
            /\ first <= ret.val
            /\ ret.val <= last
            /\ IsBusinessDay(ret.val)
            /\ \A d \in first..(ret.val - 1) : ~IsBusinessDay(d)

\* vencimento of a contract whose month begins with four days that are no
\* business days
C25_Witness ==
    /\ op = "vencimento"
    /\ WellFormedTicker(args.ticker)
    /\ IsOk(ret)
    /\ ret.val = FirstOfContractMonth(args.ticker) + 4

\* C26 as stated: for every year Y in 1950..2100 no two rules of the
\* registry resolve to the same date, the dates of year_holidays(Y) are
\* pairwise distinct.
C26_YearHolidaysPairwiseDistinct ==
    (op = "year_holidays" /\ args.year \in Years) =>
        \A i \in 1..Len(ret.val), j \in 1..Len(ret.val) :
            i < j => ret.val[i] # ret.val[j]

\* C26 as amended: for every year Y in 1950..2100 the dates of
\* year_holidays(Y) are pairwise distinct, except that Good Friday and
\* Tiradentes (the 4th and the 5th rule) resolve to the same date, 21 April,
\* exactly in the years whose Easter Sunday is 23 April.
C26_OnlyGoodFridayAndTiradentesCoincide ==
    (op = "year_holidays" /\ args.year \in Years) =>
        LET easter_on_23_april ==
                _calc_pascoa(args.year) = Ok(Date(args.year, 4, 23))
        IN  /\ \A i \in 1..Len(ret.val), j \in 1..Len(ret.val) :
                  (i < j /\ ret.val[i] = ret.val[j]) =>
                      (i = 4 /\ j = 5 /\ easter_on_23_april
                       /\ ret.val[i] = Date(args.year, 4, 21))
            /\ easter_on_23_april =>
                  (Len(ret.val) >= 5 /\ ret.val[4] = ret.val[5])

\* year_holidays of a year in which Good Friday falls on 21 April
C26_Witness ==
    /\ op = "year_holidays"
    /\ args.year \in Years
    /\ ret.val[4] = Date(args.year, 4, 21)
    /\ ret.val[5] = Date(args.year, 4, 21)

C28_DiffSignFollowsOrder ==
    op = "diff" =>
        /\ IsOk(ret)
        /\ args.b >= args.a => ret.val >= 0
        /\ args.b <= args.a => ret.val <= 0

\* C29: the scan for the nearest business day one day at a time (_find_du
\* in either direction, and the loop of vencimento) ends from every start
\* date and returns the nearest business day in its direction, the start
\* date itself when it is one, after at most 4 steps.
C29_ScanReturnsNearestBusinessDayWithinFourSteps ==
    /\ op = "_find_du" =>
          LET steps == (ret.val - args.start_date) * args.direction
          IN  IF IsScanning(ret) THEN steps <= 4
              ELSE /\ IsOk(ret)
                   /\ steps \in 0..4
                   /\ IsBusinessDay(ret.val)
                   /\ \A k \in 0..(steps - 1) :
                          ~IsBusinessDay(args.start_date + k * args.direction)
    /\ (op = "vencimento" /\ WellFormedTicker(args.ticker)) =>
          LET steps == ret.val - FirstOfContractMonth(args.ticker)
          IN  IF IsScanning(ret) THEN steps <= 4
              ELSE /\ IsOk(ret)
                   /\ steps \in 0..4
                   /\ IsBusinessDay(ret.val)
                   /\ \A k \in 0..(steps - 1) :
                          ~IsBusinessDay(FirstOfContractMonth(args.ticker) + k)

\* C30: for every inicio <= fim and chunk_size >= 1 the pairs yielded by
\* _make_chunks partition inicio..fim: every pair has start <= end, the
\* pairs are pairwise disjoint and together they cover every day from
\* inicio to fim, also when fim - inicio is a multiple of chunk_size.
C30_MakeChunksPartitionsInterval ==
    op = "_make_chunks" =>
        /\ IsOk(ret)
        /\ \A i \in 1..Len(ret.val) : ret.val[i][1] <= ret.val[i][2]
        /\ \A i \in 1..Len(ret.val), j \in 1..Len(ret.val) :
              i # j => (ret.val[i][1]..ret.val[i][2])
                           \cap (ret.val[j][1]..ret.val[j][2]) = {}
        /\ UNION {ret.val[i][1]..ret.val[i][2] : i \in 1..Len(ret.val)}
               = args.inicio..args.fim

=============================================================================
